---------------------------- MODULE Spec2Model ----------------------------
(***************************************************************************)
(* Model of the vault indexing / retrieval engine (src/ai/vault).          *)
(*                                                                         *)
(* Text is modelled at character level: a string is a sequence of          *)
(* one-character strings, a document is the sequence of its lines          *)
(* (what text.splitlines() returns).  Vectors are tuples of integers.      *)
(***************************************************************************)
EXTENDS Integers, Sequences, FiniteSets, TLC

(***************************************************************************)
(* Bounds of the model.                                                    *)
(***************************************************************************)
\* max_words and overlap_words passed to every index run
MaxWords == 2
OverlapWords == 1
\* batch_size is drawn from 1..MaxBatch
MaxBatch == 2
\* top_k is drawn from 1..MaxTopK
MaxTopK == 2
MaxLines == 3
MaxSectionWords == 6
MaxWindowWords == 4
MaxTasks == 3
MaxDim == 2
Precision == 13

(***************************************************************************)
(* Strings                                                                 *)
(***************************************************************************)
SP == " "
NL == "\n"
HASH == "#"

\* str.isspace for the characters of the model's alphabet
IsSpace(c) == c \in {SP, NL}

Max2(a, b) == IF a >= b THEN a ELSE b
Min2(a, b) == IF a <= b THEN a ELSE b

\* s[i:j] of Python (0-based, end exclusive), for 0 <= i
Slice(s, i, j) == SubSeq(s, i + 1, Min2(j, Len(s)))

RECURSIVE LStripSet(_, _)
\* str.lstrip(chars): drop the leading run of characters in cs
LStripSet(s, cs) ==
    IF s # <<>> /\ Head(s) \in cs THEN LStripSet(Tail(s), cs) ELSE s

RECURSIVE RStripSet(_, _)
RStripSet(s, cs) ==
    IF s # <<>> /\ s[Len(s)] \in cs
    THEN RStripSet(SubSeq(s, 1, Len(s) - 1), cs) ELSE s

\* str.lstrip(), str.strip(), str.lstrip("#")
LStrip(s) == LStripSet(s, {SP, NL})
Strip(s) == RStripSet(LStripSet(s, {SP, NL}), {SP, NL})
LStripHash(s) == LStripSet(s, {HASH})

\* str.startswith("#")
StartsWithHash(s) == s # <<>> /\ Head(s) = HASH

RECURSIVE Join(_, _)
\* sep.join(parts)
Join(parts, sep) ==
    IF parts = <<>> THEN <<>>
    ELSE IF Len(parts) = 1 THEN parts[1]
    ELSE parts[1] \o sep \o Join(Tail(parts), sep)

RECURSIVE SplitAcc(_, _, _)
SplitAcc(s, cur, acc) ==
    IF s = <<>> THEN (IF cur = <<>> THEN acc ELSE Append(acc, cur))
    ELSE IF IsSpace(Head(s))
         THEN SplitAcc(Tail(s), <<>>, IF cur = <<>> THEN acc ELSE Append(acc, cur))
         ELSE SplitAcc(Tail(s), Append(cur, Head(s)), acc)

\* str.split(): the whitespace-delimited words of s
Split(s) == SplitAcc(s, <<>>, <<>>)

(***************************************************************************)
(* indexer.py: _chunk_text, _split_sections, _collect_file_chunks,         *)
(* _batched                                                                *)
(***************************************************************************)
RECURSIVE ChunkFrom(_, _, _, _)
\* the loop  for i in range(0, len(words), step), from index i on
ChunkFrom(words, i, step, max_words) ==
    IF i >= Len(words) THEN <<>>
    ELSE <<Join(Slice(words, i, i + max_words), <<SP>>)>>
         \o ChunkFrom(words, i + step, step, max_words)

_chunk_text(text, max_words, overlap_words) ==
    LET words == Split(text)
        step == Max2(max_words - overlap_words, 1)
    IN IF words = <<>> THEN <<>> ELSE ChunkFrom(words, 0, step, max_words)

\* flush(): emit the buffer as a section tagged with the current stack
Flush(st) ==
    IF st.buffer # <<>>
    THEN [st EXCEPT !.sections = Append(@, [heading_path |-> Join(st.stack, <<SP, ">", SP>>),
                                             text |-> Join(st.buffer, <<NL>>)]),
                    !.buffer = <<>>]
    ELSE st

\* line.lstrip().startswith("#")
IsMarker(line) == StartsWithHash(LStrip(line))
\* len(line) - len(line.lstrip("#"))
HeadingLevel(line) == Len(line) - Len(LStripHash(line))
\* line.lstrip("#").strip()
HeadingTitle(line) == Strip(LStripHash(line))

\* faulty variant: the new title is pushed on the whole stack
SplitLineKeepsStack(st, line) ==
    IF IsMarker(line)
    THEN LET f == Flush(st)
         IN IF HeadingLevel(line) <= 0 THEN [f EXCEPT !.skipped = @ + 1]
            ELSE [f EXCEPT !.stack = Append(f.stack, HeadingTitle(line)),
                           !.buffer = Append(f.buffer, line)]
    ELSE [st EXCEPT !.buffer = Append(@, line)]
\* one iteration of the loop over lines; skipped counts the iterations that
\* left through  if level <= 0: continue
SplitLine(st, line) ==
    IF IsMarker(line)
    THEN LET f == Flush(st)
             level == HeadingLevel(line)
             title == HeadingTitle(line)
         IN IF level <= 0 THEN [f EXCEPT !.skipped = @ + 1]
            ELSE [f EXCEPT !.stack = Append(Slice(f.stack, 0, level - 1), title),
                           !.buffer = Append(f.buffer, line)]
    ELSE [st EXCEPT !.buffer = Append(@, line)]

RECURSIVE SplitLines(_, _)
SplitLines(st, lines) ==
    IF lines = <<>> THEN st ELSE SplitLines(SplitLine(st, Head(lines)), Tail(lines))

\* sections, heading_stack and buffer as lines 146-148 create them
SplitStart == [sections |-> <<>>, stack |-> <<>>, buffer |-> <<>>, skipped |-> 0]

_split_sections(lines) == Flush(SplitLines(SplitStart, lines)).sections

RECURSIVE SectionChunks(_, _, _, _)
\* VaultChunk for every non-blank window of one section
SectionChunks(path, heading_path, texts, acc) ==
    IF texts = <<>> THEN acc
    ELSE SectionChunks(path, heading_path, Tail(texts),
            IF Strip(Head(texts)) # <<>>
            THEN Append(acc, [text |-> Head(texts), file_path |-> path,
                              heading_path |-> heading_path])
            ELSE acc)

RECURSIVE CollectSections(_, _, _, _, _)
CollectSections(path, sections, max_words, overlap_words, acc) ==
    IF sections = <<>> THEN acc
    ELSE CollectSections(path, Tail(sections), max_words, overlap_words,
            SectionChunks(path, Head(sections).heading_path,
                          _chunk_text(Head(sections).text, max_words, overlap_words), acc))

\* lines: the content of the file at path
_collect_file_chunks(path, lines, max_words, overlap_words) ==
    CollectSections(path, _split_sections(lines), max_words, overlap_words, <<>>)

RECURSIVE BatchedFrom(_, _, _)
BatchedFrom(items, i, batch_size) ==
    IF i >= Len(items) THEN <<>>
    ELSE <<Slice(items, i, i + batch_size)>> \o BatchedFrom(items, i + batch_size, batch_size)

\* faulty variant: the last, shorter batch is dropped
BatchedDropsPartial(items, batch_size) ==
    LET all == BatchedFrom(items, 0, batch_size)
    IN SelectSeq(all, LAMBDA b : Len(b) = batch_size)

\* range(0, len(items), batch_size) is empty for a negative step and raises
\* ValueError for a step of zero
BatchedRaises(batch_size) == batch_size = 0
_batched(items, batch_size) ==
    IF batch_size <= 0 THEN <<>> ELSE BatchedFrom(items, 0, batch_size)


(***************************************************************************)
(* The vault (file system) and the documents it may hold                   *)
(***************************************************************************)
\* file paths; their numeric order is the lexicographic order of the names
Paths == {1, 2}

\* "a a a"
DocAlpha == << <<"a", SP, "a", SP, "a">> >>
\* "b b"
DocBeta == << <<"b", SP, "b">> >>
\* "#h" / "b": a heading and a body line
DocHeading == << <<HASH, "h">>, <<"b">> >>
Docs == <<DocAlpha, DocBeta, DocHeading>>
DocIds == 1..Len(Docs)
Absent == 0

\* hashlib.sha256(bytes).hexdigest(): a digest that identifies the content
_hash_file(bytes) == CHOOSE i \in DocIds : Docs[i] = bytes

RECURSIVE SortedSeq(_)
\* sorted(S)
SortedSeq(S) ==
    IF S = {} THEN <<>>
    ELSE LET m == CHOOSE x \in S : \A y \in S : x <= y
         IN <<m>> \o SortedSeq(S \ {m})

(***************************************************************************)
(* The embedding capability (tests/test_vault.py DummyEmbeddingProvider)   *)
(***************************************************************************)
RECURSIVE Count(_, _)
Count(s, c) ==
    IF s = <<>> THEN 0 ELSE (IF Head(s) = c THEN 1 ELSE 0) + Count(Tail(s), c)

embed(text) == <<Count(text, "a"), Count(text, "b")>>

embed_texts(texts) == [i \in 1..Len(texts) |-> embed(texts[i])]

\* what a call of the capability hands back: the right vectors, one too few,
\* or one too many ("raise" hands back nothing)
Outcomes == {"ok", "raise", "short", "long"}
ProviderReturn(outcome, texts) ==
    LET v == embed_texts(texts)
    IN CASE outcome = "short" -> SubSeq(v, 1, Len(v) - 1)
         [] outcome = "long" -> Append(v, <<0, 0>>)
         [] OTHER -> v

\* json.dumps(vector) / json.loads(text)
json_dumps(vector) == [json |-> vector]
json_loads(text) == text.json

(***************************************************************************)
(* The persisted store: the sqlite file with the files and chunks tables.  *)
(* chunks is the table in rowid (chunk_id) order; mtime and                *)
(* last_indexed_at are not modelled.                                       *)
(***************************************************************************)
EmptyStore == [exists |-> FALSE, files |-> {}, chunks |-> <<>>]

\* faulty variant: the old rows stay
DeleteChunksKeepsRows(rows, file_path) == rows
\* DELETE FROM chunks WHERE file_path = ?
DeleteChunks(rows, file_path) == SelectSeq(rows, LAMBDA r : r.file_path # file_path)

\* DELETE FROM files WHERE file_path = ?
DeleteFileRow(files, file_path) == {r \in files : r.file_path # file_path}

\* faulty variant: a plain INSERT, the older record stays
UpsertDuplicates(files, file_path, content_hash) ==
    files \cup {[file_path |-> file_path, content_hash |-> content_hash]}
\* INSERT INTO files ... ON CONFLICT(file_path) DO UPDATE SET content_hash = ...
UpsertFile(files, file_path, content_hash) ==
    {r \in files : r.file_path # file_path}
        \cup {[file_path |-> file_path, content_hash |-> content_hash]}

\* INSERT INTO chunks (file_path, heading_path, text, embedding_json)
InsertChunk(rows, chunk, vector) ==
    Append(rows, [file_path |-> chunk.file_path, heading_path |-> chunk.heading_path,
                  text |-> chunk.text, embedding_json |-> json_dumps(vector)])

\* {row[0]: row[1] for row in SELECT file_path, content_hash FROM files}
ExistingHashes(files) ==
    [p \in {r.file_path : r \in files} |->
        (CHOOSE r \in files : r.file_path = p).content_hash]

\* faulty variant: the index file is kept
UnlinkKeepsStore(mode, st) == st
\* if mode == "rebuild" and index_path.exists(): index_path.unlink()
Unlink(mode, st) == IF mode = "rebuild" /\ st.exists THEN EmptyStore ELSE st

\* sqlite3.connect creates the file; CREATE TABLE IF NOT EXISTS runs outside
\* the transaction
Connect(st) == [st EXCEPT !.exists = TRUE]

\* faulty variant: nothing is found missing
MissingNone(existing, live_paths) == {}
\* set(existing_hashes.keys()) - live_paths
Missing(existing, live_paths) == (DOMAIN existing) \ live_paths

RECURSIVE DeleteMissing(_, _)
\* the cleanup loop over missing
DeleteMissing(c, missing) ==
    IF missing = {} THEN c
    ELSE LET p == CHOOSE x \in missing : TRUE
         IN DeleteMissing([files |-> DeleteFileRow(c.files, p),
                           chunks |-> DeleteChunks(c.chunks, p)], missing \ {p})

\* faulty variants: update-all never skips; update-new skips as update-all does
SkipInNewModeOnly(mode, existing, file_path, content_hash) ==
    mode = "update-new" /\ file_path \in DOMAIN existing
SkipOnlyUnchanged(mode, existing, file_path, content_hash) ==
    file_path \in DOMAIN existing /\ existing[file_path] = content_hash
\* the two continue statements of the loop over files
SkipFile(mode, existing, file_path, content_hash) ==
    \/ mode = "update-new" /\ file_path \in DOMAIN existing
    \/ /\ mode = "update-all"
       /\ file_path \in DOMAIN existing
       /\ existing[file_path] = content_hash

\* faulty variants: zip without strict; vectors paired in reverse
ZipTruncates(batch, vectors) ==
    [pairs |-> [i \in 1..Min2(Len(batch), Len(vectors)) |-> <<batch[i], vectors[i]>>],
     error |-> FALSE]
ZipReversed(batch, vectors) ==
    [pairs |-> [i \in 1..Min2(Len(batch), Len(vectors)) |->
                    <<batch[i], vectors[Min2(Len(batch), Len(vectors)) + 1 - i]>>],
     error |-> Len(batch) # Len(vectors)]
\* zip(batch, vectors, strict=True): the pairs made before the lengths are
\* found to differ, and whether ValueError is raised
ZipStrict(batch, vectors) ==
    [pairs |-> [i \in 1..Min2(Len(batch), Len(vectors)) |-> <<batch[i], vectors[i]>>],
     error |-> Len(batch) # Len(vectors)]

RECURSIVE InsertPairs(_, _)
InsertPairs(rows, pairs) ==
    IF pairs = <<>> THEN rows
    ELSE InsertPairs(InsertChunk(rows, Head(pairs)[1], Head(pairs)[2]), Tail(pairs))

\* leaving the with-block: conn.commit() on success, rollback on an exception
\* (a killed process leaves the journal to undo the open transaction)
CommitTx(st, c) == [st EXCEPT !.files = c.files, !.chunks = c.chunks]
\* faulty variant: the writes of the failed run stay
RollbackKeepsWrites(st, c) == [st EXCEPT !.files = c.files, !.chunks = c.chunks]
Rollback(st, c) == st

\* faulty variant: the size of the chunks table is returned
ReturnsStoreTotal(collected, c) == Len(c.chunks)
\* return len(chunks)
ReturnValue(collected, c) == Len(collected)

(***************************************************************************)
(* retriever.py                                                            *)
(*                                                                         *)
(* Floating point.  A float is sign * m * 2^e with a significand m of       *)
(* Precision bits (2^(Precision-1) <= m < 2^Precision), or zero; every     *)
(* operation returns the exact result rounded to the nearest float, ties   *)
(* to the even significand, as IEEE 754 arithmetic does.  Python's float   *)
(* carries 53 bits; Precision bits keep every intermediate integer within  *)
(* TLC's integers.                                                         *)
(***************************************************************************)
Pow2(k) == 2 ^ k

RECURSIVE BitLen(_)
\* the number of binary digits of n > 0
BitLen(n) == IF n <= 1 THEN n ELSE 1 + BitLen(n \div 2)

FZero == [s |-> 0, m |-> 0, e |-> 0]

\* the float nearest to sign * (n + f) * 2^e, where n > 0 and 0 <= f < 1 with
\* f > 0 exactly when sticky
RoundTo(sign, n, e, sticky) ==
    LET b == BitLen(n)
    IN IF b <= Precision
       THEN [s |-> sign, m |-> n * Pow2(Precision - b), e |-> e - (Precision - b)]
       ELSE LET d == Pow2(b - Precision)
                q == n \div d
                r == n % d
                h == d \div 2
                up == r > h \/ (r = h /\ (sticky \/ q % 2 = 1))
                m1 == IF up THEN q + 1 ELSE q
            IN IF m1 = Pow2(Precision)
               THEN [s |-> sign, m |-> Pow2(Precision - 1), e |-> e + (b - Precision) + 1]
               ELSE [s |-> sign, m |-> m1, e |-> e + (b - Precision)]

\* float(n) for an integer n
FromInt(n) ==
    IF n = 0 THEN FZero ELSE RoundTo(IF n < 0 THEN -1 ELSE 1, IF n < 0 THEN -n ELSE n, 0, FALSE)

FNeg(x) == [x EXCEPT !.s = -x.s]
FAbs(x) == [x EXCEPT !.s = x.s * x.s]

\* x * y
FMul(x, y) ==
    IF x.s = 0 \/ y.s = 0 THEN FZero
    ELSE RoundTo(x.s * y.s, x.m * y.m, x.e + y.e, FALSE)

\* x < y
FLess(x, y) ==
    LET below(u, v) == u.e < v.e \/ (u.e = v.e /\ u.m < v.m)
    IN IF x.s # y.s THEN x.s < y.s
       ELSE IF x.s = 0 THEN FALSE
       ELSE IF x.s = 1 THEN below(x, y)
       ELSE below(y, x)

\* x + y; an operand below a quarter of the other's last place cannot change
\* the rounded sum
FAdd(x, y) ==
    IF x.s = 0 THEN y
    ELSE IF y.s = 0 THEN x
    ELSE LET big == IF x.e >= y.e THEN x ELSE y
             small == IF x.e >= y.e THEN y ELSE x
             shift == big.e - small.e
         IN IF shift > Precision + 2 THEN big
            ELSE LET n == big.s * big.m * Pow2(shift) + small.s * small.m
                 IN IF n = 0 THEN FZero
                    ELSE RoundTo(IF n < 0 THEN -1 ELSE 1, IF n < 0 THEN -n ELSE n,
                                 small.e, FALSE)

RECURSIVE ISqrt(_, _, _)
\* the largest r in lo..hi with r * r <= n
ISqrt(n, lo, hi) ==
    IF lo >= hi THEN lo
    ELSE LET mid == (lo + hi + 1) \div 2
         IN IF mid * mid <= n THEN ISqrt(n, mid, hi) ELSE ISqrt(n, lo, mid - 1)

\* math.sqrt(x) for x >= 0
FSqrt(x) ==
    IF x.s = 0 THEN FZero
    ELSE LET k == IF (x.e - (Precision + 1)) % 2 = 0 THEN Precision + 1 ELSE Precision + 2
             n == x.m * Pow2(k)
             r == ISqrt(n, Pow2(Precision), Pow2(Precision + 1) - 1)
         IN RoundTo(1, r, (x.e - k) \div 2, r * r # n)

\* x / y for y # 0
FDiv(x, y) ==
    IF x.s = 0 THEN FZero
    ELSE LET n == x.m * Pow2(Precision + 1)
         IN RoundTo(x.s * y.s, n \div y.m, x.e - y.e - (Precision + 1), n % y.m # 0)

RECURSIVE FSum(_)
\* sum(...) from the left
FSum(xs) == IF xs = <<>> THEN FZero ELSE FAdd(FSum(SubSeq(xs, 1, Len(xs) - 1)), xs[Len(xs)])

\* the components of a stored or embedded vector as floats
Floats(v) == [i \in 1..Len(v) |-> FromInt(v[i])]

\* sum(x * y for x, y in zip(a, b, strict=False))
Dot(a, b) ==
    LET n == Min2(Len(a), Len(b))
    IN FSum([i \in 1..n |-> FMul(a[i], b[i])])

\* faulty variant: the dot product is not divided by the norms
CosineDotOnly(a, b) ==
    IF a = <<>> \/ b = <<>> THEN FZero ELSE Dot(Floats(a), Floats(b))
_cosine_similarity(a, b) ==
    IF a = <<>> \/ b = <<>> THEN FZero
    ELSE LET x == Floats(a)
             y == Floats(b)
             dot == Dot(x, y)
             denom == FMul(FSqrt(Dot(x, x)), FSqrt(Dot(y, y)))
         IN IF denom = FZero THEN FZero ELSE FDiv(dot, denom)

\* s < t and s = t on scores
ScoreLess(s, t) == FLess(s, t)
ScoreEq(s, t) == s = t

RECURSIVE InsertTiesFirst(_, _)
\* faulty variant: r goes before the results of equal score
InsertTiesFirst(sorted, r) ==
    IF sorted = <<>> THEN <<r>>
    ELSE IF ScoreLess(r.score, Head(sorted).score)
         THEN <<Head(sorted)>> \o InsertTiesFirst(Tail(sorted), r)
         ELSE <<r>> \o sorted

RECURSIVE InsertDesc(_, _)
\* r goes behind every result whose score is not less than its own
InsertDesc(sorted, r) ==
    IF sorted = <<>> THEN <<r>>
    ELSE IF ScoreLess(Head(sorted).score, r.score)
         THEN <<r>> \o sorted
         ELSE <<Head(sorted)>> \o InsertDesc(Tail(sorted), r)

RECURSIVE SortFrom(_, _, _)
SortFrom(results, i, acc) ==
    IF i > Len(results) THEN acc
    ELSE SortFrom(results, i + 1, InsertDesc(acc, results[i]))

\* results.sort(key=lambda r: r.score, reverse=True): stable, descending
SortByScoreDesc(results) == SortFrom(results, 1, <<>>)

\* the vectors embed returns for a query or for a chunk of up to MaxWords words
EmbedVectors == {<<i, j>> : i \in 0..MaxWords, j \in 0..MaxWords}
\* _cosine_similarity on those vectors, evaluated once for all queries
Scores == [a \in EmbedVectors, b \in EmbedVectors |-> _cosine_similarity(a, b)]

\* the loop over the scanned rows; row is the position of the row in the scan
ScoreRows(rows, query_vec) ==
    [i \in 1..Len(rows) |->
        [score |-> Scores[query_vec, json_loads(rows[i].embedding_json)],
         text |-> rows[i].text, file_path |-> rows[i].file_path,
         heading_path |-> rows[i].heading_path, row |-> i]]

Queries == { <<"a">>, <<"a", SP, "b">>, <<SP>> }

(***************************************************************************)
(* State                                                                   *)
(***************************************************************************)
VARIABLES
    vault,            \* Paths -> DocIds \cup {Absent}: the file under each path
    store,            \* the committed content of the index file
    pc,               \* "idle", "scan", "embed", "done", "failed"
    mode,             \* arguments of the index run in progress or last ended
    cleanup_deleted,
    batch_size,
    existing_hashes,
    todo,             \* the files the loop has still to visit, sorted
    chunks,           \* the list chunks
    batches,          \* the batches the embedding loop has still to visit
    conn,             \* files and chunks tables as the open transaction sees them
    ret,              \* the returned count
    err,              \* the exception that ended the run
    pre,              \* history: the store when the run was invoked
    calls,            \* history: the calls of embed_texts made by the run
    inserted,         \* history: chunk rows inserted by the run
    lastOutcome,      \* history: what the last embed_texts call handed back
    prev,             \* history: the run before this one, on the same vault
    qres,             \* what the last query_vault_index returned
    args,             \* history: vault_name and vault root of the index call
    fn,               \* a call of one of the pure functions: arguments and result
    cli               \* a CLI command under way and the task ledger

vars == <<vault, store, pc, mode, cleanup_deleted, batch_size, existing_hashes,
          todo, chunks, batches, conn, ret, err, pre, calls, inserted,
          lastOutcome, prev, qres, args, fn, cli>>

\* the state of the index, as opposed to fn and cli
indexVars == <<vault, store, pc, mode, cleanup_deleted, batch_size, existing_hashes,
               todo, chunks, batches, conn, ret, err, pre, calls, inserted,
               lastOutcome, prev, qres, args>>

Modes == {"rebuild", "update-all", "update-new"}
NoConn == [files |-> {}, chunks |-> <<>>]
NoRun == [mode |-> "none"]
NoQuery == [status |-> "none"]
Quiescent == pc \in {"idle", "done", "failed"}
EmptyMap == [p \in {} |-> 0]
NoArgs == [vault_name |-> <<>>, vault_exists |-> TRUE]
NoFn == [kind |-> "none"]
NoCli == [pc |-> "none", command |-> "none", root_set |-> FALSE, task |-> 0,
          tasks |-> <<>>]
\* vault names and modes a caller may pass
VaultNames == { <<"v">>, <<SP>> }
AnyModes == Modes \cup {"bogus"}

LivePaths == {p \in Paths : vault[p] # Absent}
\* path.read_bytes() / path.read_text()
ReadFile(p) == Docs[vault[p]]

\* no index run and no query yet
IdleIndex ==
    /\ vault = [p \in Paths |-> Absent]
    /\ store = EmptyStore
    /\ pc = "idle"
    /\ mode = "none"
    /\ cleanup_deleted = FALSE
    /\ batch_size = 1
    /\ existing_hashes = EmptyMap
    /\ todo = <<>>
    /\ chunks = <<>>
    /\ batches = <<>>
    /\ conn = NoConn
    /\ ret = -1
    /\ err = "none"
    /\ pre = EmptyStore
    /\ calls = <<>>
    /\ inserted = 0
    /\ lastOutcome = "none"
    /\ prev = NoRun
    /\ qres = NoQuery
    /\ args = NoArgs

Init ==
    /\ IdleIndex
    /\ fn = NoFn
    /\ cli = NoCli

ResetRun ==
    /\ mode' = "none"
    /\ cleanup_deleted' = FALSE
    /\ batch_size' = 1
    /\ existing_hashes' = EmptyMap
    /\ todo' = <<>>
    /\ chunks' = <<>>
    /\ batches' = <<>>
    /\ conn' = NoConn
    /\ ret' = -1
    /\ err' = "none"
    /\ pre' = EmptyStore
    /\ calls' = <<>>
    /\ inserted' = 0
    /\ lastOutcome' = "none"
    /\ args' = NoArgs

(***************************************************************************)
(* The environment edits the vault between runs                            *)
(***************************************************************************)
WriteFile(p, d) ==
    /\ Quiescent
    /\ vault[p] # d
    /\ vault' = [vault EXCEPT ![p] = d]
    /\ pc' = "idle"
    /\ ResetRun
    /\ prev' = NoRun
    /\ qres' = NoQuery
    /\ UNCHANGED <<store, fn, cli>>

RemoveFile(p) ==
    /\ Quiescent
    /\ vault[p] # Absent
    /\ vault' = [vault EXCEPT ![p] = Absent]
    /\ pc' = "idle"
    /\ ResetRun
    /\ prev' = NoRun
    /\ qres' = NoQuery
    /\ UNCHANGED <<store, fn, cli>>

(***************************************************************************)
(* index_vault                                                             *)
(***************************************************************************)
\* what a rebuild that just returned gave, kept for the run that follows it
RunSummary ==
    IF pc = "done" /\ mode = "rebuild"
    THEN [mode |-> mode, ret |-> ret, nrows |-> Len(store.chunks), files |-> store.files]
    ELSE NoRun

\* lines 25-30: the exception the validation raises, or "ok"
ValidateIgnoresMode(vault_name, vault_exists, m) ==
    IF Strip(vault_name) = <<>> THEN "ValueError"
    ELSE IF ~vault_exists THEN "FileNotFoundError"
    ELSE "ok"
Validate(vault_name, vault_exists, m) ==
    IF Strip(vault_name) = <<>> THEN "ValueError"
    ELSE IF ~vault_exists THEN "FileNotFoundError"
    ELSE IF m \notin Modes THEN "ValueError"
    ELSE "ok"

\* lines 25-72: validation, unlink, connect, existing_hashes, cleanup_deleted
IndexBegin(vault_name, vault_exists, m, cd, bs) ==
    /\ Quiescent
    /\ LET v == Validate(vault_name, vault_exists, m)
           opened == Connect(Unlink(m, store))
           existing == IF m # "rebuild" THEN ExistingHashes(opened.files) ELSE EmptyMap
           c0 == [files |-> opened.files, chunks |-> opened.chunks]
       IN IF v # "ok"
          THEN /\ UNCHANGED store
               /\ existing_hashes' = EmptyMap
               /\ conn' = NoConn
               /\ todo' = <<>>
               /\ cleanup_deleted' = FALSE
               /\ batch_size' = 1
               /\ err' = v
               /\ pc' = "failed"
          ELSE /\ store' = opened
               /\ existing_hashes' = existing
               /\ conn' = IF m # "rebuild" /\ cd
                          THEN DeleteMissing(c0, Missing(existing, LivePaths))
                          ELSE c0
               /\ todo' = SortedSeq(LivePaths)
               /\ cleanup_deleted' = cd
               /\ batch_size' = bs
               /\ err' = "none"
               /\ pc' = "scan"
    /\ args' = [vault_name |-> vault_name, vault_exists |-> vault_exists]
    /\ pre' = store
    /\ prev' = RunSummary
    /\ mode' = m
    /\ chunks' = <<>>
    /\ batches' = <<>>
    /\ ret' = -1
    /\ calls' = <<>>
    /\ inserted' = 0
    /\ lastOutcome' = "none"
    /\ qres' = NoQuery
    /\ UNCHANGED <<vault, fn, cli>>

\* an exception leaves the with-block, or the process is killed: the
\* transaction is undone and the locals of the call are gone
Fail(e, c) ==
    /\ store' = Rollback(store, c)
    /\ conn' = NoConn
    /\ existing_hashes' = EmptyMap
    /\ todo' = <<>>
    /\ chunks' = <<>>
    /\ batches' = <<>>
    /\ err' = e
    /\ pc' = "failed"

\* lines 73-100: one iteration of the loop over the files
ScanFile ==
    /\ pc = "scan"
    /\ todo # <<>>
    /\ LET file_path == Head(todo)
           content_hash == _hash_file(ReadFile(file_path))
       IN IF SkipFile(mode, existing_hashes, file_path, content_hash)
          THEN UNCHANGED <<chunks, conn>>
          ELSE LET rows == IF mode = "update-all" /\ file_path \in DOMAIN existing_hashes
                           THEN DeleteChunks(conn.chunks, file_path)
                           ELSE conn.chunks
               IN /\ chunks' = chunks \o _collect_file_chunks(file_path, ReadFile(file_path),
                                                              MaxWords, OverlapWords)
                  /\ conn' = [files |-> UpsertFile(conn.files, file_path, content_hash),
                              chunks |-> rows]
    /\ todo' = Tail(todo)
    /\ UNCHANGED <<vault, store, pc, mode, cleanup_deleted, batch_size, existing_hashes,
                   batches, ret, err, pre, calls, inserted, lastOutcome, prev, qres,
                   args, fn, cli>>

\* lines 75, 130: reading a file raises
ScanReadError ==
    /\ pc = "scan"
    /\ todo # <<>>
    /\ Fail("OSError", conn)
    /\ UNCHANGED <<vault, mode, cleanup_deleted, batch_size, ret, pre, calls, inserted,
                   lastOutcome, prev, qres, args, fn, cli>>

\* lines 101-106
MakeBatches ==
    /\ pc = "scan"
    /\ todo = <<>>
    /\ IF BatchedRaises(batch_size)
       THEN Fail("ValueError", conn)
       ELSE /\ batches' = _batched(chunks, batch_size)
            /\ pc' = "embed"
            /\ UNCHANGED <<store, existing_hashes, todo, chunks, conn, err>>
    /\ UNCHANGED <<vault, mode, cleanup_deleted, batch_size, ret, pre, calls, inserted,
                   lastOutcome, prev, qres, args, fn, cli>>

\* lines 107-121: one iteration of the loop over the batches
EmbedBatch(outcome) ==
    /\ pc = "embed"
    /\ batches # <<>>
    /\ LET batch == Head(batches)
           texts == [i \in 1..Len(batch) |-> batch[i].text]
           z == ZipStrict(batch, ProviderReturn(outcome, texts))
           c1 == [conn EXCEPT !.chunks = InsertPairs(@, z.pairs)]
       IN /\ calls' = Append(calls, [texts |-> texts,
                                      paths |-> [i \in 1..Len(batch) |-> batch[i].file_path]])
          /\ lastOutcome' = outcome
          /\ IF outcome = "raise"
             THEN /\ Fail("ProviderFailure", conn)
                  /\ UNCHANGED inserted
             ELSE IF z.error
             THEN /\ Fail("ValueError", c1)
                  /\ inserted' = inserted + Len(z.pairs)
             ELSE /\ conn' = c1
                  /\ inserted' = inserted + Len(z.pairs)
                  /\ batches' = Tail(batches)
                  /\ UNCHANGED <<store, err, pc, existing_hashes, todo, chunks>>
    /\ UNCHANGED <<vault, mode, cleanup_deleted, batch_size, ret, pre, prev, qres,
                   args, fn, cli>>

\* lines 122-123
CommitAndReturn ==
    /\ pc = "embed"
    /\ batches = <<>>
    /\ store' = CommitTx(store, conn)
    /\ ret' = ReturnValue(chunks, conn)
    /\ conn' = NoConn
    /\ existing_hashes' = EmptyMap
    /\ pc' = "done"
    /\ UNCHANGED <<vault, mode, cleanup_deleted, batch_size, todo, chunks, batches, err,
                   pre, calls, inserted, lastOutcome, prev, qres, args, fn, cli>>

\* the process is terminated while the run is under way
Kill ==
    /\ pc \in {"scan", "embed"}
    /\ Fail("killed", conn)
    /\ UNCHANGED <<vault, mode, cleanup_deleted, batch_size, ret, pre, calls, inserted,
                   lastOutcome, prev, qres, args, fn, cli>>

(***************************************************************************)
(* query_vault_index                                                       *)
(***************************************************************************)
\* lines 18-29: a connection is opened only once the index file is known to
\* exist, and nothing is written through it
QueryAlwaysConnects(query, st) == Connect(st)
StoreAfterQuery(query, st) ==
    IF Strip(query) = <<>> \/ ~st.exists THEN st ELSE Connect(st)

Query(query, top_k, outcome) ==
    /\ Quiescent
    /\ qres' =
         LET called == [query |-> query, before |-> store]
         IN IF Strip(query) = <<>> THEN [status |-> "ValueError"] @@ called
            ELSE IF ~store.exists THEN [status |-> "FileNotFoundError"] @@ called
            ELSE IF outcome = "raise" THEN [status |-> "ProviderFailure"] @@ called
            ELSE LET query_vec == embed_texts(<<query>>)[1]
                     scored == ScoreRows(store.chunks, query_vec)
                 IN [status |-> "ok", top_k |-> top_k, scanned |-> Len(store.chunks),
                     results |-> Slice(SortByScoreDesc(scored), 0, top_k)] @@ called
    /\ store' = StoreAfterQuery(query, store)
    /\ pc' = "idle"
    /\ ResetRun
    /\ prev' = NoRun
    /\ UNCHANGED <<vault, fn, cli>>

Next ==
    \/ \E p \in Paths, d \in DocIds : WriteFile(p, d)
    \/ \E p \in Paths : RemoveFile(p)
    \/ \E m \in Modes, cd \in BOOLEAN, bs \in 1..MaxBatch :
          IndexBegin(<<"v">>, TRUE, m, cd, bs)
    \/ ScanFile
    \/ ScanReadError
    \/ MakeBatches
    \/ \E o \in Outcomes : EmbedBatch(o)
    \/ CommitAndReturn
    \/ Kill
    \/ \E q \in Queries, k \in 1..MaxTopK, o \in {"ok", "raise"} : Query(q, k, o)

Spec == Init /\ [][Next]_vars

(***************************************************************************)
(* index_vault called with any arguments: blank vault name, missing vault  *)
(* root, unknown mode, batch_size below 1                                  *)
(***************************************************************************)
NextArgs ==
    \/ \E p \in Paths, d \in DocIds : WriteFile(p, d)
    \/ \E p \in Paths : RemoveFile(p)
    \/ \E n \in VaultNames, x \in BOOLEAN, m \in AnyModes : IndexBegin(n, x, m, FALSE, 1)
    \/ \E m \in Modes, bs \in -1..0 : IndexBegin(<<"v">>, TRUE, m, TRUE, bs)
    \/ ScanFile
    \/ ScanReadError
    \/ MakeBatches
    \/ \E o \in {"ok", "raise"} : EmbedBatch(o)
    \/ CommitAndReturn
    \/ Kill

SpecArgs == Init /\ [][NextArgs]_vars

(***************************************************************************)
(* _split_sections, one iteration of its loop at a time, on every document *)
(* of up to MaxLines lines                                                 *)
(***************************************************************************)
LineH1 == <<HASH, "h">>
LineH2 == <<HASH, HASH, "k">>
LineIndented == <<SP, HASH, "x">>
LineText == <<"a">>
LineBlank == <<>>
SplitAlphabet == {LineH1, LineH2, LineIndented, LineText, LineBlank}
SeqsUpTo(S, n) == UNION {[1..k -> S] : k \in 0..n}
SplitDocs == SeqsUpTo(SplitAlphabet, MaxLines)

\* prev and last are history: the splitter state before the last iteration
\* and the line that iteration took
SplitCall(lines) ==
    [kind |-> "split", lines |-> lines, rest |-> lines, st |-> SplitStart,
     prev |-> SplitStart, last |-> <<>>, stepped |-> FALSE, done |-> FALSE]

InitSplit ==
    /\ IdleIndex
    /\ cli = NoCli
    /\ fn \in {SplitCall(lines) : lines \in SplitDocs}

\* lines 156-167: one iteration of  for line in lines
SplitStep ==
    /\ fn.kind = "split"
    /\ fn.rest # <<>>
    /\ fn' = [fn EXCEPT !.prev = fn.st,
                        !.st = SplitLine(fn.st, Head(fn.rest)),
                        !.last = Head(fn.rest),
                        !.rest = Tail(fn.rest),
                        !.stepped = TRUE]
    /\ UNCHANGED <<indexVars, cli>>

\* lines 169-170: the last flush() and the return
SplitEnd ==
    /\ fn.kind = "split"
    /\ fn.rest = <<>>
    /\ ~fn.done
    /\ fn' = [fn EXCEPT !.prev = fn.st, !.st = Flush(fn.st),
                        !.stepped = FALSE, !.done = TRUE]
    /\ UNCHANGED <<indexVars, cli>>

NextSplit == SplitStep \/ SplitEnd

SpecSplit == InitSplit /\ [][NextSplit]_vars

(***************************************************************************)
(* _chunk_text on a section of 0..MaxSectionWords words, with              *)
(* 1 <= max_words <= MaxWindowWords and 0 <= overlap_words < max_words     *)
(***************************************************************************)
\* a section text of n words
WordsText(n) == Join([i \in 1..n |-> <<"a">>], <<SP>>)

ChunkCall(text, max_words, overlap_words) ==
    [kind |-> "chunk", text |-> text, max_words |-> max_words,
     overlap_words |-> overlap_words, result |-> <<>>, done |-> FALSE]

InitChunk ==
    /\ IdleIndex
    /\ cli = NoCli
    /\ fn \in {ChunkCall(WordsText(w), m, o) :
                  w \in 0..MaxSectionWords, m \in 1..MaxWindowWords, o \in 0..(MaxWindowWords - 1)}
    /\ fn.overlap_words < fn.max_words

\* lines 173-182: the call returns its list of windows
ChunkReturn ==
    /\ fn.kind = "chunk"
    /\ ~fn.done
    /\ fn' = [fn EXCEPT !.result = _chunk_text(fn.text, fn.max_words, fn.overlap_words),
                        !.done = TRUE]
    /\ UNCHANGED <<indexVars, cli>>

NextChunk == ChunkReturn

SpecChunk == InitChunk /\ [][NextChunk]_vars

(***************************************************************************)
(* cli.py: chat, vault index and vault query, and the rows they write in   *)
(* the tasks table of the ledger (a task id is the position of its row)    *)
(***************************************************************************)
Commands == {"chat", "vault-index", "vault-query"}

\* TaskLedger.log_task: INSERT INTO tasks ... status 'started'
log_task(tasks) == Append(tasks, "started")
\* TaskLedger.complete_task: UPDATE tasks SET status = ? WHERE id = ?
complete_task(tasks, task_id, status) == [tasks EXCEPT ![task_id] = status]

\* the command is entered: chat and vault query raise BadParameter on a blank
\* argument before any row is written; otherwise log_task writes the row
CliInvoke(command, blank, root_set) ==
    /\ cli.pc \in {"none", "returned", "raised"}
    /\ Len(cli.tasks) < MaxTasks
    /\ cli' = IF command # "vault-index" /\ blank
              THEN [cli EXCEPT !.pc = "raised", !.command = command,
                               !.root_set = FALSE, !.task = 0]
              ELSE [pc |-> IF command = "chat" THEN "try" ELSE "root",
                    command |-> command,
                    root_set |-> command # "chat" /\ root_set,
                    task |-> Len(cli.tasks) + 1,
                    tasks |-> log_task(cli.tasks)]
    /\ UNCHANGED <<indexVars, fn>>

\* vault index, vault query: if index_root is None: raise typer.BadParameter
CliCheckRoot ==
    /\ cli.pc = "root"
    /\ cli' = [cli EXCEPT !.pc = IF cli.root_set THEN "try" ELSE "raised"]
    /\ UNCHANGED <<indexVars, fn>>

\* the try block up to complete_task(task_id, status="completed"); any of
\* its calls may raise
CliTry(outcome) ==
    /\ cli.pc = "try"
    /\ cli' = IF outcome = "ok"
              THEN [cli EXCEPT !.tasks = complete_task(@, cli.task, "completed"),
                               !.pc = "echo"]
              ELSE [cli EXCEPT !.pc = "except"]
    /\ UNCHANGED <<indexVars, fn>>

\* the rest of the try block: typer.echo of the result
CliEcho(outcome) ==
    /\ cli.pc = "echo"
    /\ cli' = [cli EXCEPT !.pc = IF outcome = "ok" THEN "returned" ELSE "except"]
    /\ UNCHANGED <<indexVars, fn>>

\* except Exception: complete_task(task_id, status="failed"), raise
CliExcept ==
    /\ cli.pc = "except"
    /\ cli' = [cli EXCEPT !.tasks = complete_task(@, cli.task, "failed"),
                          !.pc = "raised"]
    /\ UNCHANGED <<indexVars, fn>>

NextCli ==
    \/ \E c \in Commands, blank \in BOOLEAN, root_set \in BOOLEAN : CliInvoke(c, blank, root_set)
    \/ CliCheckRoot
    \/ \E o \in {"ok", "raise"} : CliTry(o)
    \/ \E o \in {"ok", "raise"} : CliEcho(o)
    \/ CliExcept

SpecCli == Init /\ [][NextCli]_vars

(***************************************************************************)
(* _cosine_similarity on every pair of vectors of up to MaxDim components  *)
(***************************************************************************)
Components == -2..2
Vectors == SeqsUpTo(Components, MaxDim)

CosineCall(a, b) == [kind |-> "cosine", a |-> a, b |-> b, result |-> FZero, done |-> FALSE]

InitCosine ==
    /\ IdleIndex
    /\ cli = NoCli
    /\ fn \in {CosineCall(a, b) : a \in Vectors, b \in Vectors}

\* lines 48-55: the call returns its score
CosineReturn ==
    /\ fn.kind = "cosine"
    /\ ~fn.done
    /\ fn' = [fn EXCEPT !.result = _cosine_similarity(fn.a, fn.b), !.done = TRUE]
    /\ UNCHANGED <<indexVars, cli>>

NextCosine == CosineReturn

SpecCosine == InitCosine /\ [][NextCosine]_vars

(***************************************************************************)
(* Vocabulary of the properties                                            *)
(***************************************************************************)
RowsOf(rows, p) == SelectSeq(rows, LAMBDA r : r.file_path = p)
RecordsOf(files, p) == {r \in files : r.file_path = p}
HasRecord(files, p) == RecordsOf(files, p) # {}

CurrentHash(p) == _hash_file(ReadFile(p))
CurrentChunks(p) == _collect_file_chunks(p, ReadFile(p), MaxWords, OverlapWords)

\* the row a chunk is stored as when it is paired with the vector of its own text
RowFor(chunk) ==
    [file_path |-> chunk.file_path, heading_path |-> chunk.heading_path,
     text |-> chunk.text, embedding_json |-> json_dumps(embed(chunk.text))]

\* the chunk rows of the file as it is now
CurrentRows(p) == [i \in 1..Len(CurrentChunks(p)) |-> RowFor(CurrentChunks(p)[i])]

RECURSIVE ChunksOfPaths(_)
\* the chunks of the files of a sorted list of paths, one file after the other
ChunksOfPaths(ps) ==
    IF ps = <<>> THEN <<>> ELSE CurrentChunks(Head(ps)) \o ChunksOfPaths(Tail(ps))

\* file had a record when the run began, with the digest the file has now
UnchangedSince(p) ==
    \E r \in pre.files : r.file_path = p /\ r.content_hash = CurrentHash(p)
\* file had a record when the run began, with another digest
ChangedSince(p) ==
    \E r \in pre.files : r.file_path = p /\ r.content_hash # CurrentHash(p)

\* no chunk of p was collected, none of its texts was sent to the capability
NotProcessed(p) ==
    /\ \A i \in 1..Len(chunks) : chunks[i].file_path # p
    /\ \A k \in 1..Len(calls) : \A i \in 1..Len(calls[k].paths) : calls[k].paths[i] # p

\* record and chunk rows of p are what they were when the run began
Untouched(p) ==
    /\ RecordsOf(store.files, p) = RecordsOf(pre.files, p)
    /\ RowsOf(store.chunks, p) = RowsOf(pre.chunks, p)

\* neither a record nor a chunk row of p is in the store
Gone(p) == RecordsOf(store.files, p) = {} /\ RowsOf(store.chunks, p) = <<>>

\* stored paths whose file is no longer in the vault
Vanished == {p \in Paths : HasRecord(pre.files, p) /\ vault[p] = Absent}

CeilDiv(n, d) == (n + d - 1) \div d

(***************************************************************************)
(* Properties                                                              *)
(***************************************************************************)

\* C1: a failed index run, in any mode, leaves the files and chunks tables
\* exactly as they were before the invocation.
C1_FailedRunLeavesStore ==
    pc = "failed" => (store.files = pre.files /\ store.chunks = pre.chunks)

\* C2: after a successful update-all run, a file whose digest differs from the
\* stored content_hash has exactly the chunk rows of its current content, and
\* its record holds the new digest.
C2_UpdateAllReplacesChanged ==
    (pc = "done" /\ mode = "update-all") =>
        \A p \in LivePaths :
            ChangedSince(p) =>
                /\ RowsOf(store.chunks, p) = CurrentRows(p)
                /\ RecordsOf(store.files, p) =
                       {[file_path |-> p, content_hash |-> CurrentHash(p)]}

C2_Witness ==
    /\ pc = "done"
    /\ mode = "update-all"
    /\ \E p \in LivePaths :
          /\ ChangedSince(p)
          /\ RowsOf(pre.chunks, p) # <<>>
          /\ RowsOf(pre.chunks, p) # CurrentRows(p)

\* C3: a successful update-all run leaves record and chunk rows of a file with
\* an unchanged digest as they were, collects and embeds none of its text, and
\* collects (and so counts) exactly the chunks of the files that changed or
\* had no record.
C3_UpdateAllSkipsUnchanged ==
    (pc = "done" /\ mode = "update-all") =>
        /\ \A p \in LivePaths : UnchangedSince(p) => (Untouched(p) /\ NotProcessed(p))
        /\ chunks = ChunksOfPaths(SortedSeq({p \in LivePaths : ~UnchangedSince(p)}))
        /\ ret = Len(chunks)

C3_Witness ==
    /\ pc = "done"
    /\ mode = "update-all"
    /\ \E p, q \in LivePaths :
          /\ UnchangedSince(p)
          /\ RowsOf(store.chunks, p) # <<>>
          /\ ChangedSince(q)
          /\ ret = Len(CurrentChunks(q))
          /\ ret > 0

\* C4: a successful update-new run leaves record and chunk rows of every file
\* that had a record as they were, also when its content changed, collects and
\* embeds none of its text, and collects exactly the chunks of the files that
\* had no record.
C4_UpdateNewOnlyNewFiles ==
    (pc = "done" /\ mode = "update-new") =>
        /\ \A p \in LivePaths :
              HasRecord(pre.files, p) => (Untouched(p) /\ NotProcessed(p))
        /\ chunks = ChunksOfPaths(SortedSeq({p \in LivePaths : ~HasRecord(pre.files, p)}))
        /\ \A p \in LivePaths :
              ~HasRecord(pre.files, p) => RowsOf(store.chunks, p) = CurrentRows(p)

C4_Witness ==
    /\ pc = "done"
    /\ mode = "update-new"
    /\ \E p, q \in LivePaths :
          /\ ChangedSince(p)
          /\ RowsOf(store.chunks, p) # <<>>
          /\ ~HasRecord(pre.files, q)
          /\ RowsOf(store.chunks, q) # <<>>

\* C5 as stated: in whichever mode, a run with cleanup_deleted removes record
\* and chunk rows of every stored path no longer in the vault, and a run
\* without it leaves them untouched.
C5_CleanupInAnyMode ==
    pc = "done" =>
        \A p \in Vanished : IF cleanup_deleted THEN Gone(p) ELSE Untouched(p)

\* C5 amended: a successful run with cleanup_deleted removes them in whichever
\* mode; without it an update-all or update-new run leaves them untouched,
\* while a rebuild run discards them whatever the flag.
C5_CleanupByMode ==
    pc = "done" =>
        \A p \in Vanished :
            /\ cleanup_deleted => Gone(p)
            /\ mode = "rebuild" => Gone(p)
            /\ (~cleanup_deleted /\ mode # "rebuild") => Untouched(p)

C5_Witness ==
    /\ pc = "done"
    /\ cleanup_deleted
    /\ mode = "update-new"
    /\ \E p \in Vanished : RowsOf(pre.chunks, p) # <<>>
    /\ \E q \in LivePaths : RowsOf(store.chunks, q) # <<>>

\* C6: a rebuild that follows a rebuild on the unchanged vault returns the same
\* count, leaves the same number of chunk rows and the same file records.
C6_RebuildTwice ==
    (pc = "done" /\ mode = "rebuild" /\ prev # NoRun) =>
        /\ ret = prev.ret
        /\ Len(store.chunks) = prev.nrows
        /\ store.files = prev.files

C6_Witness ==
    /\ pc = "done"
    /\ mode = "rebuild"
    /\ prev # NoRun
    /\ ret > 0
    /\ Cardinality(store.files) = Cardinality(Paths)

\* the files a run has to process, by its mode and the records it found
Eligible ==
    {p \in LivePaths :
        CASE mode = "update-new" -> ~HasRecord(pre.files, p)
          [] mode = "update-all" -> ~UnchangedSince(p)
          [] OTHER -> TRUE}

\* C7: a successful run returns the number of chunks it produced, which is the
\* number of chunk rows it inserted (the chunks of the files its mode does not
\* skip), not the number of rows in the store.
C7_ReturnsNewChunks ==
    pc = "done" =>
        /\ ret = inserted
        /\ ret = Len(ChunksOfPaths(SortedSeq(Eligible)))

C7_Witness ==
    /\ pc = "done"
    /\ ret > 0
    /\ ret < Len(store.chunks)
    /\ Eligible # LivePaths

\* C8: an embedding call that hands back more or fewer vectors than texts ends
\* the run with an error, and no chunk row of the run is in the store.
C8_LengthMismatchIsFatal ==
    lastOutcome \in {"short", "long"} =>
        /\ pc = "failed"
        /\ err = "ValueError"
        /\ store.chunks = (IF mode = "rebuild" THEN <<>> ELSE pre.chunks)

C8_Witness ==
    /\ lastOutcome = "short"
    /\ pc = "failed"
    /\ inserted > 0
    /\ mode = "update-all"
    /\ store.chunks # <<>>

\* C9: the k-th embedding call gets the texts of chunks (k-1)*batch_size+1 ..
\* min(k*batch_size, N) in collected order, never an empty list; a run that
\* returns has made ceil(N / batch_size) calls, and every chunk is stored with
\* the vector returned for its position.
C9_BatchesInOrder ==
    pc \in {"embed", "done"} =>
        LET N == Len(chunks)
        IN /\ Len(calls) <= CeilDiv(N, batch_size)
           /\ \A k \in 1..Len(calls) :
                 /\ calls[k].texts # <<>>
                 /\ calls[k].texts =
                        [i \in 1..(Min2(k * batch_size, N) - (k - 1) * batch_size) |->
                            chunks[(k - 1) * batch_size + i].text]
           /\ pc = "done" =>
                 /\ Len(calls) = CeilDiv(N, batch_size)
                 /\ Len(store.chunks) >= N
                 /\ \A j \in 1..N :
                       store.chunks[Len(store.chunks) - N + j] = RowFor(chunks[j])

C9_Witness ==
    /\ pc = "done"
    /\ batch_size = 2
    /\ Len(chunks) > batch_size
    /\ Len(chunks) % batch_size # 0
    /\ Len(calls) = CeilDiv(Len(chunks), batch_size)
    /\ \E i, j \in 1..Len(chunks) : embed(chunks[i].text) # embed(chunks[j].text)

\* C10: query results are in non-increasing score order, results of equal score
\* are in the order their rows were scanned, and there are
\* min(top_k, number of stored chunks) of them.
C10_RankedStable ==
    qres.status = "ok" =>
        LET res == qres.results
        IN /\ Len(res) = Min2(qres.top_k, Len(store.chunks))
           /\ \A i, j \in 1..Len(res) :
                 i < j =>
                    /\ ~ScoreLess(res[i].score, res[j].score)
                    /\ ScoreEq(res[i].score, res[j].score) => res[i].row < res[j].row

C10_Witness ==
    /\ qres.status = "ok"
    /\ Len(store.chunks) > qres.top_k
    /\ Len(qres.results) >= 2
    /\ ScoreEq(qres.results[1].score, qres.results[2].score)
    /\ qres.results[1].row > 1
    /\ ScoreLess(FZero, qres.results[1].score)


\* C11: a query of a missing index fails with FileNotFoundError, a blank
\* query fails with ValueError, and after any query, failed or not, the
\* store is what it was before: same file records, same chunk rows, and a
\* missing index file is still missing.
C11_QueryLeavesStore ==
    qres.status # "none" =>
        /\ store = qres.before
        /\ Strip(qres.query) = <<>> => qres.status = "ValueError"
        /\ Strip(qres.query) # <<>> /\ ~qres.before.exists =>
               qres.status = "FileNotFoundError" /\ ~store.exists
        /\ qres.status = "ok" => qres.before.exists

\* a non-blank query of an index that was never built
C11_Witness ==
    /\ qres.status = "FileNotFoundError"
    /\ Strip(qres.query) # <<>>
    /\ ~store.exists
    /\ LivePaths # {}

\* C13: a call of index_vault with batch_size below 1 is rejected instead
\* of being carried out, so no such call returns normally.
C13_MalformedRejected == batch_size < 1 => pc # "done"

\* the arguments of the last index_vault call that validation must reject
BlankName == Strip(args.vault_name) = <<>>
MissingRoot == ~args.vault_exists
BadMode == mode \notin Modes
ExpectedErrors ==
    (IF BlankName \/ BadMode THEN {"ValueError"} ELSE {})
        \cup (IF MissingRoot THEN {"FileNotFoundError"} ELSE {})

\* C14: a call of index_vault with a blank vault name, a missing vault root
\* or an unknown mode fails with the matching exception (ValueError,
\* FileNotFoundError, ValueError) before anything else happens: the store is
\* what it was before the call, also in rebuild mode, and the embedding
\* provider has not been called.
C14_RejectedBeforeSideEffects ==
    pc # "idle" /\ (BlankName \/ MissingRoot \/ BadMode) =>
        /\ pc = "failed"
        /\ err \in ExpectedErrors
        /\ BadMode /\ ~BlankName /\ ~MissingRoot => err = "ValueError"
        /\ store = pre
        /\ calls = <<>>

\* a rebuild of a missing vault root, asked of a store that holds chunk rows
C14_Witness ==
    /\ pc = "failed"
    /\ mode = "rebuild"
    /\ MissingRoot
    /\ ~BlankName
    /\ err = "FileNotFoundError"
    /\ store.exists
    /\ store.chunks # <<>>

\* the chunk rows of the version of file_path whose digest is content_hash
VersionRows(file_path, content_hash) ==
    LET cs == _collect_file_chunks(file_path, Docs[content_hash], MaxWords, OverlapWords)
    IN [i \in 1..Len(cs) |-> RowFor(cs[i])]

\* C17: in every state of the store, whatever runs and vault edits came
\* before, a file path has at most one record, every chunk row belongs to a
\* path that has a record, and the chunk rows of a recorded path are exactly
\* the chunks of the file version whose digest the record holds, in order,
\* none twice and none from an older version.
C17_StoreConsistent ==
    /\ \A p \in Paths : Cardinality(RecordsOf(store.files, p)) <= 1
    /\ \A i \in 1..Len(store.chunks) : HasRecord(store.files, store.chunks[i].file_path)
    /\ \A r \in store.files :
          RowsOf(store.chunks, r.file_path) = VersionRows(r.file_path, r.content_hash)

\* an update-new run has returned and left the record and the rows of an
\* edited file at the older version, next to a file it has just indexed
C17_Witness ==
    /\ pc = "done"
    /\ mode = "update-new"
    /\ \E p \in LivePaths :
          /\ \E r \in store.files : r.file_path = p /\ r.content_hash # CurrentHash(p)
          /\ RowsOf(store.chunks, p) # <<>>
          /\ RowsOf(store.chunks, p) # CurrentRows(p)
    /\ \E p \in LivePaths : ~HasRecord(pre.files, p) /\ RowsOf(store.chunks, p) # <<>>

\* the lines of a section text: the inverse of "\n".join
RECURSIVE LinesAcc(_, _, _)
LinesAcc(text, cur, acc) ==
    IF text = <<>> THEN Append(acc, cur)
    ELSE IF Head(text) = NL THEN LinesAcc(Tail(text), <<>>, Append(acc, cur))
    ELSE LinesAcc(Tail(text), Append(cur, Head(text)), acc)
SectionLines(text) == LinesAcc(text, <<>>, <<>>)

RECURSIVE AllSectionLines(_)
AllSectionLines(sections) ==
    IF sections = <<>> THEN <<>>
    ELSE SectionLines(Head(sections).text) \o AllSectionLines(Tail(sections))

\* the lines the loop has taken so far
Taken == Slice(fn.lines, 0, Len(fn.lines) - Len(fn.rest))
IsHeading(line) == IsMarker(line) /\ HeadingLevel(line) >= 1

\* C16: no iteration of the loop of _split_sections leaves through the
\* branch for a heading level of zero or less: every line that passes the
\* marker test has a level of at least 1.
C16_LevelBranchUnreachable ==
    fn.kind = "split" => fn.st.skipped = 0

\* C18: when _split_sections returns, the lines of its sections, one
\* section after the other, are the lines of the document.
C18_NoLineLost ==
    fn.kind = "split" /\ fn.done => AllSectionLines(fn.st.sections) = fn.lines

\* C19: an iteration that takes a heading of level L >= 1 emits the buffer
\* it found (if any) as a section tagged with the stack it found, leaves a
\* stack made of the first L-1 titles it found (all, if fewer) and the new
\* title, hence of at most L titles, and leaves a buffer holding the heading
\* line alone; as long as no heading has been taken the stack is empty and
\* every section has an empty heading path.
C19_HeadingStep ==
    fn.kind = "split" =>
        /\ fn.stepped /\ IsHeading(fn.last) =>
             LET L == HeadingLevel(fn.last)
                 kept == Min2(L - 1, Len(fn.prev.stack))
             IN /\ fn.st.sections =
                     IF fn.prev.buffer = <<>> THEN fn.prev.sections
                     ELSE Append(fn.prev.sections,
                                 [heading_path |-> Join(fn.prev.stack, <<SP, ">", SP>>),
                                  text |-> Join(fn.prev.buffer, <<NL>>)])
                /\ fn.st.stack = [i \in 1..(kept + 1) |->
                                    IF i <= kept THEN fn.prev.stack[i]
                                    ELSE HeadingTitle(fn.last)]
                /\ Len(fn.st.stack) <= L
                /\ fn.st.buffer = <<fn.last>>
        /\ (\A i \in 1..Len(Taken) : ~IsHeading(Taken[i])) =>
             /\ fn.st.stack = <<>>
             /\ \A i \in 1..Len(fn.st.sections) : fn.st.sections[i].heading_path = <<>>

\* a level-1 heading taken with two titles on the stack and text in the buffer
C19_Witness ==
    /\ fn.kind = "split"
    /\ fn.stepped
    /\ IsHeading(fn.last)
    /\ HeadingLevel(fn.last) = 1
    /\ Len(fn.prev.stack) = 2
    /\ fn.prev.buffer # <<>>
    /\ Len(fn.st.stack) = 1
    /\ Len(fn.st.sections) = Len(fn.prev.sections) + 1

\* the number of windows stated for W words, window M and overlap O
StatedWindows(W, M, O) ==
    IF W = 0 THEN 0
    ELSE IF W <= M THEN 1
    ELSE CeilDiv(W - M, M - O) + 1

\* C12: for a section of W words, 0 <= overlap_words < max_words, the list
\* _chunk_text returns has ceil((W - M) / (M - O)) + 1 windows when W > M,
\* one when 0 < W <= M and none when W = 0.
C12_WindowCount ==
    fn.kind = "chunk" /\ fn.done =>
        Len(fn.result) = StatedWindows(Len(Split(fn.text)), fn.max_words, fn.overlap_words)

\* C20: once a command has returned or raised, the task row it created is
\* no longer 'started': it is 'completed' or 'failed'.
C20_TaskSettled ==
    cli.pc \in {"returned", "raised"} /\ cli.task # 0 =>
        cli.tasks[cli.task] \in {"completed", "failed"}

RECURSIVE IntDot(_, _)
\* the dot product of two integer vectors of equal length, exactly
IntDot(a, b) ==
    IF a = <<>> THEN 0 ELSE Head(a) * Head(b) + IntDot(Tail(a), Tail(b))

\* zero norm: no component, or every component zero
ZeroNorm(v) == \A i \in 1..Len(v) : v[i] = 0
Orthogonal(a, b) == Len(a) = Len(b) /\ IntDot(a, b) = 0

FOne == FromInt(1)
\* four units of the last place of 1.0, 2^(2 - Precision): the bound that
\* three roundings (sqrt, product, quotient) leave on the quotient
Tolerance == [s |-> 1, m |-> Pow2(Precision - 1), e |-> 3 - 2 * Precision]
NearOne(x) == ~FLess(Tolerance, FAbs(FAdd(x, FNeg(FOne))))

\* C15, as stated: _cosine_similarity returns 0.0 when either vector has
\* zero norm, 1.0 for two identical non-zero vectors and 0.0 for two
\* orthogonal vectors.
C15_ExactCosine ==
    fn.kind = "cosine" /\ fn.done =>
        /\ ZeroNorm(fn.a) \/ ZeroNorm(fn.b) => fn.result = FZero
        /\ fn.a = fn.b /\ ~ZeroNorm(fn.a) => fn.result = FOne
        /\ Orthogonal(fn.a, fn.b) => fn.result = FZero

\* C15, amended: _cosine_similarity returns 0.0 when either vector has zero
\* norm, a value within rounding error of 1.0 (at most four units of the
\* last place away) for two identical non-zero vectors, and 0.0 for two
\* orthogonal vectors whose dot product is computed exactly.
C15_CosineUpToRounding ==
    fn.kind = "cosine" /\ fn.done =>
        /\ ZeroNorm(fn.a) \/ ZeroNorm(fn.b) => fn.result = FZero
        /\ fn.a = fn.b /\ ~ZeroNorm(fn.a) => NearOne(fn.result)
        /\ Orthogonal(fn.a, fn.b) => fn.result = FZero

\* two identical non-zero vectors whose score is not 1.0
C15_Witness ==
    /\ fn.kind = "cosine"
    /\ fn.done
    /\ fn.a = fn.b
    /\ ~ZeroNorm(fn.a)
    /\ fn.result # FOne
    /\ NearOne(fn.result)

=========================================================================
